---- MODULE Spec2Model ----
(***************************************************************************)
(* A model of rusty-schema-diff: the four schema analyzers (JSON Schema,   *)
(* OpenAPI, Protobuf, SQL DDL), the compatibility report they build and    *)
(* the migration planner.                                                  *)
(*                                                                         *)
(* Strings are TLA+ strings; format!() is concatenation (\o) and           *)
(* str::contains is a substring search, so locations and descriptions are  *)
(* the texts the code builds.  The metadata maps of SchemaChange and of    *)
(* the report are not modelled: no operation reads them.                   *)
(***************************************************************************)
EXTENDS Integers, Sequences, FiniteSets, TLC

VARIABLES dialect, old, new, changes, report, plan, validation, breaking

vars == <<dialect, old, new, changes, report, plan, validation, breaking>>

(***************************************************************************)
(* Helpers: strings, sequences, machine integers.                          *)
(***************************************************************************)

\* str::contains(needle)
Contains(s, needle) ==
    \E i \in 1..(Len(s) - Len(needle) + 1) :
        SubSeq(s, i, i + Len(needle) - 1) = needle

RECURSIVE Concat(_)
\* the concatenation of a sequence of sequences (Vec::push in discovery order)
Concat(ss) == IF ss = <<>> THEN <<>> ELSE Head(ss) \o Concat(Tail(ss))

RECURSIVE SumSeq(_)
SumSeq(s) == IF s = <<>> THEN 0 ELSE Head(s) + SumSeq(Tail(s))

RECURSIVE MaxSeq(_)
\* Iterator::max over non-negative weights; 0 stands for None (unwrap_or(0))
MaxSeq(s) ==
    IF s = <<>> THEN 0
    ELSE LET m == MaxSeq(Tail(s)) IN IF Head(s) > m THEN Head(s) ELSE m

Map(F(_), s) == [i \in 1..Len(s) |-> F(s[i])]

\* Iterator::filter(..).collect(): the elements satisfying P, in order
Filter(s, P(_)) ==
    LET RECURSIVE From(_)
        From(i) ==
            IF i > Len(s) THEN <<>>
            ELSE (IF P(s[i]) THEN <<s[i]>> ELSE <<>>) \o From(i + 1)
    IN  From(1)

\* Iterator::find: the index of the first element satisfying P, 0 for None
FindFirst(s, P(_)) ==
    IF \E i \in 1..Len(s) : P(s[i])
    THEN CHOOSE i \in 1..Len(s) : P(s[i]) /\ \A j \in 1..(i - 1) : ~P(s[j])
    ELSE 0

U8_MAX == 255
I32_MAX == 2147483647
I32_MIN == -I32_MAX - 1

\* u8::saturating_add
U8SaturatingAdd(a, b) == IF a + b > U8_MAX THEN U8_MAX ELSE a + b
\* u8::saturating_sub
U8SaturatingSub(a, b) == IF a - b < 0 THEN 0 ELSE a - b
\* i32::saturating_sub: saturates at the bounds of i32 only
I32SaturatingSub(a, b) ==
    IF a - b < I32_MIN THEN I32_MIN
    ELSE IF a - b > I32_MAX THEN I32_MAX ELSE a - b
\* `x as u8` on an i32: truncation to the low 8 bits
AsU8(x) == x % (U8_MAX + 1)
\* u8::try_from(x).is_ok()
FitsU8(x) == x >= 0 /\ x <= U8_MAX

(***************************************************************************)
(* The change model (analyzer.rs) and the results (report.rs).             *)
(***************************************************************************)

ChangeType == {"Addition", "Removal", "Modification", "Rename"}

\* SchemaChange::new
SchemaChange(change_type, location, description) ==
    [change_type |-> change_type, location |-> location, description |-> description]

CompatibilityIssue(severity, description, location) ==
    [severity |-> severity, description |-> description, location |-> location]

ValidationError(message, path, code) ==
    [message |-> message, path |-> path, code |-> code]

\* Result<CompatibilityReport>: status is "Ok", "Err" (err names the kind of
\* SchemaDiffError) or "Panic" (the call aborted); "None" is no call yet.
NoReport ==
    [status |-> "None", err |-> "", changes |-> <<>>, compatibility_score |-> 0,
     is_compatible |-> FALSE, issues |-> <<>>]

OkReport(chs, score, compatible, issues) ==
    [status |-> "Ok", err |-> "", changes |-> chs, compatibility_score |-> score,
     is_compatible |-> compatible, issues |-> issues]

ErrReport(kind) == [NoReport EXCEPT !.status = "Err", !.err = kind]

PanicReport == [NoReport EXCEPT !.status = "Panic"]

\* Result<ValidationResult>
NoValidation == [status |-> "None", is_valid |-> FALSE, errors |-> <<>>]

OkValidation(errors) == [status |-> "Ok", is_valid |-> errors = <<>>, errors |-> errors]

PanicValidation == [NoValidation EXCEPT !.status = "Panic"]

(***************************************************************************)
(* The migration planner (migration.rs).                                   *)
(***************************************************************************)

ImpactWeight(change) ==
    CASE change.change_type = "Addition" -> 25
      [] change.change_type = "Removal" -> 100
      [] change.change_type = "Modification" -> 50
      [] change.change_type = "Rename" -> 30

\* calculate_impact adding the weights up instead of taking their maximum
calculate_impact_sum(chs) ==
    LET score == SumSeq(Map(ImpactWeight, chs))
    IN  IF score < 100 THEN score ELSE 100

calculate_impact(chs) ==
    LET score == MaxSeq(Map(ImpactWeight, chs))
    IN  IF score < 100 THEN score ELSE 100

\* IsBreakingChange counting removals only
IsRemoval(change) == change.change_type = "Removal"

IsBreakingChange(change) == change.change_type \in {"Removal", "Modification"}

detect_breaking_changes(chs) == \E i \in 1..Len(chs) : IsBreakingChange(chs[i])

breaking_changes(p) == Filter(p.changes, IsBreakingChange)

\* the Vec<&SchemaChange> returned by breaking_changes(); "None" is no call yet
NoBreakingChanges == [status |-> "None", changes |-> <<>>]

\* Result<MigrationPlan>
NoPlan ==
    [status |-> "None", err |-> "", changes |-> <<>>, impact_score |-> 0,
     is_breaking |-> FALSE]

MigrationPlan_new(chs) ==
    [status |-> "Ok", err |-> "", changes |-> chs,
     impact_score |-> calculate_impact(chs),
     is_breaking |-> detect_breaking_changes(chs)]

ErrPlan(kind) == [NoPlan EXCEPT !.status = "Err", !.err = kind]

PanicPlan == [NoPlan EXCEPT !.status = "Panic"]

(***************************************************************************)
(* Schema contents.  A Schema's content is text; the parsers are external  *)
(* (serde_json, serde_yaml, protobuf::text_format, sqlparser).  A content  *)
(* is modelled by the syntax it is written in and the document that a      *)
(* parser accepting that syntax reads from it.                             *)
(***************************************************************************)

Content(syntax, doc) == [syntax |-> syntax, doc |-> doc]

\* Result<T> of a parser: ok, the document, and the error it maps to
ParseOk(doc) == [ok |-> TRUE, doc |-> doc, err |-> ""]
ParseErr(doc, kind) == [ok |-> FALSE, doc |-> doc, err |-> kind]

(***************************************************************************)
(* The Protobuf analyzer (analyzer/protobuf.rs).                           *)
(* A FileDescriptorProto is [message_type: Seq of DescriptorProto]; a      *)
(* DescriptorProto is [name, field: Seq of [name, type]]; type is the name *)
(* of the field type, which is also its {:?} rendering.                    *)
(***************************************************************************)

\* protobuf::text_format::parse_from_str reads the text format of a
\* descriptor only; any failure becomes SchemaDiffError::ProtobufError
Protobuf_parse_proto(content) ==
    IF content.syntax = "textproto" THEN ParseOk(content.doc)
    ELSE ParseErr(content.doc, "ProtobufError")

Protobuf_compare_fields(path, old_msg, new_msg) ==
    LET OldField(old_field) ==
            LET i == FindFirst(new_msg.field, LAMBDA f : f.name = old_field.name)
            IN  IF i # 0
                THEN IF old_field.type # new_msg.field[i].type
                     THEN <<SchemaChange("Modification",
                                path \o "/" \o old_msg.name \o "/" \o old_field.name,
                                "Field '" \o old_field.name \o "' type changed from "
                                    \o old_field.type \o " to " \o new_msg.field[i].type)>>
                     ELSE <<>>
                ELSE <<SchemaChange("Removal",
                           path \o "/" \o old_msg.name \o "/" \o old_field.name,
                           "Field '" \o old_field.name \o "' was removed")>>
        NewField(new_field) ==
            IF ~\E j \in 1..Len(old_msg.field) : old_msg.field[j].name = new_field.name
            THEN <<SchemaChange("Addition",
                       path \o "/" \o new_msg.name \o "/" \o new_field.name,
                       "New field '" \o new_field.name \o "' was added")>>
            ELSE <<>>
    IN  Concat(Map(OldField, old_msg.field)) \o Concat(Map(NewField, new_msg.field))

Protobuf_compare_messages(old_msg, new_msg, path) ==
    Protobuf_compare_fields(path, old_msg, new_msg)

Protobuf_compare_descriptors(old_desc, new_desc, path) ==
    LET OldMsg(old_msg) ==
            LET i == FindFirst(new_desc.message_type, LAMBDA m : m.name = old_msg.name)
            IN  IF i # 0
                THEN Protobuf_compare_messages(old_msg, new_desc.message_type[i], path)
                ELSE <<SchemaChange("Removal", path \o "/" \o old_msg.name,
                           "Message '" \o old_msg.name \o "' was removed")>>
        NewMsg(new_msg) ==
            IF ~\E j \in 1..Len(old_desc.message_type) :
                   old_desc.message_type[j].name = new_msg.name
            THEN <<SchemaChange("Addition", path \o "/" \o new_msg.name,
                       "Message '" \o new_msg.name \o "' was added")>>
            ELSE <<>>
    IN  Concat(Map(OldMsg, old_desc.message_type))
            \o Concat(Map(NewMsg, new_desc.message_type))

\* validate_change: an issue, or the empty sequence for None; a Rename
\* reaches todo!(), reported by Protobuf_panics_on
Protobuf_validate_change(change) ==
    CASE change.change_type = "Removal" ->
            <<CompatibilityIssue("Error", "Breaking change: " \o change.description,
                                 change.location)>>
      [] change.change_type = "Modification" ->
            <<CompatibilityIssue("Warning",
                  "Potential compatibility issue: " \o change.description,
                  change.location)>>
      [] OTHER -> <<>>

\* the todo!() of the Rename arms of validate_change and
\* calculate_compatibility_score
\* Protobuf_panics_on with Rename arms that return without todo!()
Protobuf_never_panics_on(chs) == FALSE

Protobuf_panics_on(chs) == \E i \in 1..Len(chs) : chs[i].change_type = "Rename"

\* Protobuf_deduction with the Addition weight of the other dialects
Protobuf_deduction_addition_5(change) ==
    CASE change.change_type = "Addition" -> 5
      [] change.change_type = "Removal" -> 20
      [] change.change_type = "Modification" -> 10
      [] OTHER -> 0

Protobuf_deduction(change) ==
    CASE change.change_type = "Addition" -> 0
      [] change.change_type = "Removal" -> 20
      [] change.change_type = "Modification" -> 10
      [] OTHER -> 0

\* the i32 score; deductions stay far below i32::MAX within the bounds
Protobuf_calculate_compatibility_score(chs) ==
    I32SaturatingSub(100, SumSeq(Map(Protobuf_deduction, chs)))

Protobuf_validate_changes(chs) ==
    IF Protobuf_panics_on(chs) THEN PanicValidation
    ELSE LET Err(issue) ==
                 ValidationError(issue.description, issue.location,
                     "PROTO" \o (CASE issue.severity = "Error" -> "001"
                                   [] issue.severity = "Warning" -> "002"
                                   [] issue.severity = "Info" -> "003"))
         IN  OkValidation(Map(Err, Concat(Map(Protobuf_validate_change, chs))))

\* the report built from a change sequence (protobuf.rs 34-43):
\* try_into().unwrap() aborts when the i32 score is not a u8
Protobuf_report(chs) ==
    IF Protobuf_panics_on(chs) THEN PanicReport
    ELSE LET compatibility_score == Protobuf_calculate_compatibility_score(chs)
         IN  IF FitsU8(compatibility_score)
             THEN OkReport(chs, compatibility_score, compatibility_score >= 80, <<>>)
             ELSE PanicReport

Protobuf_analyze_compatibility(o, n) ==
    LET old_desc == Protobuf_parse_proto(o)
        new_desc == Protobuf_parse_proto(n)
    IN  IF ~old_desc.ok THEN ErrReport(old_desc.err)
        ELSE IF ~new_desc.ok THEN ErrReport(new_desc.err)
        ELSE Protobuf_report(Protobuf_compare_descriptors(old_desc.doc, new_desc.doc, ""))

Protobuf_generate_migration_path(o, n) ==
    LET old_desc == Protobuf_parse_proto(o)
        new_desc == Protobuf_parse_proto(n)
    IN  IF ~old_desc.ok THEN ErrPlan(old_desc.err)
        ELSE IF ~new_desc.ok THEN ErrPlan(new_desc.err)
        ELSE MigrationPlan_new(
                 Protobuf_compare_descriptors(old_desc.doc, new_desc.doc, ""))

(***************************************************************************)
(* The JSON Schema analyzer (analyzer/json_schema.rs).                     *)
(* A serde_json Value is [t, s, c]: t is "null", "bool", "number",         *)
(* "string", "array" or "object"; s is the text of a scalar; c is the      *)
(* sequence of children [k, v], in key order for an object (serde_json's   *)
(* Map is a BTreeMap) and with k = "" for the elements of an array.        *)
(***************************************************************************)

JNull == [t |-> "null", s |-> "", c |-> <<>>]
JString(str) == [t |-> "string", s |-> str, c |-> <<>>]
JNumber(str) == [t |-> "number", s |-> str, c |-> <<>>]
JArray(elems) == [t |-> "array", s |-> "", c |-> [i \in 1..Len(elems) |-> [k |-> "", v |-> elems[i]]]]
JObject(members) == [t |-> "object", s |-> "", c |-> members]
JMember(key, value) == [k |-> key, v |-> value]

\* Json_parse with the error mapped to ParseError, as the other parsers do
Json_parse_map_err_ParseError(content) ==
    IF content.syntax = "json" THEN ParseOk(content.doc)
    ELSE ParseErr(content.doc, "ParseError")

\* serde_json::from_str(..)?: the error converts to SchemaDiffError::JsonError
Json_parse(content) ==
    IF content.syntax = "json" THEN ParseOk(content.doc)
    ELSE ParseErr(content.doc, "JsonError")

RECURSIVE Json_debug(_)
\* {:?} of a Value
Json_debug(value) ==
    LET RECURSIVE Items(_, _)
        Items(i, object) ==
            IF i > Len(value.c) THEN ""
            ELSE (IF i > 1 THEN ", " ELSE "")
                 \o (IF object THEN "\"" \o value.c[i].k \o "\": " ELSE "")
                 \o Json_debug(value.c[i].v) \o Items(i + 1, object)
    IN  CASE value.t = "null" -> "Null"
          [] value.t = "bool" -> "Bool(" \o value.s \o ")"
          [] value.t = "number" -> "Number(" \o value.s \o ")"
          [] value.t = "string" -> "String(\"" \o value.s \o "\")"
          [] value.t = "array" -> "Array [" \o Items(1, FALSE) \o "]"
          [] value.t = "object" -> "Object {" \o Items(1, TRUE) \o "}"

RECURSIVE Json_compare_schemas(_, _, _)
RECURSIVE Json_compare_objects(_, _, _)
RECURSIVE Json_compare_arrays(_, _, _)

Json_compare_schemas(old_value, new_value, path) ==
    CASE old_value.t = "object" /\ new_value.t = "object" ->
            Json_compare_objects(old_value.c, new_value.c, path)
      [] old_value.t = "array" /\ new_value.t = "array" ->
            Json_compare_arrays(old_value.c, new_value.c, path)
      [] OTHER ->
            IF old_value # new_value
            THEN <<SchemaChange("Modification", path,
                       "Value changed from " \o Json_debug(old_value) \o " to "
                           \o Json_debug(new_value))>>
            ELSE <<>>

\* Json_compare_objects pairing a removed key with an added key of identical
\* content as one Rename
Json_compare_objects_pairing_renames(old_obj, new_obj, path) ==
    LET Has(obj, key) == \E j \in 1..Len(obj) : obj[j].k = key
        OldKey(member) ==
            LET i == FindFirst(new_obj, LAMBDA m : m.k = member.k)
            IN  IF i # 0
                THEN Json_compare_schemas(member.v, new_obj[i].v, path \o "/" \o member.k)
                ELSE IF \E j \in 1..Len(new_obj) :
                           ~Has(old_obj, new_obj[j].k) /\ new_obj[j].v = member.v
                THEN <<SchemaChange("Rename", path \o "/" \o member.k,
                           "Property '" \o member.k \o "' was renamed")>>
                ELSE <<SchemaChange("Removal", path \o "/" \o member.k,
                           "Property '" \o member.k \o "' was removed")>>
        NewKey(member) ==
            IF /\ ~Has(old_obj, member.k)
               /\ ~\E j \in 1..Len(old_obj) :
                      ~Has(new_obj, old_obj[j].k) /\ old_obj[j].v = member.v
            THEN <<SchemaChange("Addition", path \o "/" \o member.k,
                       "New property '" \o member.k \o "' was added")>>
            ELSE <<>>
    IN  Concat(Map(OldKey, old_obj)) \o Concat(Map(NewKey, new_obj))

Json_compare_objects(old_obj, new_obj, path) ==
    LET OldKey(member) ==
            LET i == FindFirst(new_obj, LAMBDA m : m.k = member.k)
            IN  IF i # 0
                THEN Json_compare_schemas(member.v, new_obj[i].v, path \o "/" \o member.k)
                ELSE <<SchemaChange("Removal", path \o "/" \o member.k,
                           "Property '" \o member.k \o "' was removed")>>
        NewKey(member) ==
            IF ~\E j \in 1..Len(old_obj) : old_obj[j].k = member.k
            THEN <<SchemaChange("Addition", path \o "/" \o member.k,
                       "New property '" \o member.k \o "' was added")>>
            ELSE <<>>
    IN  Concat(Map(OldKey, old_obj)) \o Concat(Map(NewKey, new_obj))

\* Json_compare_arrays reporting the elements beyond the shorter length too
Json_compare_arrays_with_extra_elements(old_arr, new_arr, path) ==
    LET shorter == IF Len(old_arr) < Len(new_arr) THEN Len(old_arr) ELSE Len(new_arr)
        Element(i) ==
            Json_compare_schemas(old_arr[i].v, new_arr[i].v,
                                 path \o "/" \o ToString(i - 1))
        Extra(type, arr) ==
            [i \in 1..(Len(arr) - shorter) |->
                SchemaChange(type, path \o "/" \o ToString(shorter + i - 1),
                             "Array element " \o ToString(shorter + i - 1))]
    IN  (IF Len(old_arr) # Len(new_arr)
         THEN <<SchemaChange("Modification", path,
                    "Array length changed from " \o ToString(Len(old_arr)) \o " to "
                        \o ToString(Len(new_arr)))>>
         ELSE <<>>)
        \o Concat([i \in 1..shorter |-> Element(i)])
        \o Extra("Removal", old_arr) \o Extra("Addition", new_arr)

Json_compare_arrays(old_arr, new_arr, path) ==
    LET shorter == IF Len(old_arr) < Len(new_arr) THEN Len(old_arr) ELSE Len(new_arr)
        Element(i) ==
            Json_compare_schemas(old_arr[i].v, new_arr[i].v,
                                 path \o "/" \o ToString(i - 1))
    IN  (IF Len(old_arr) # Len(new_arr)
         THEN <<SchemaChange("Modification", path,
                    "Array length changed from " \o ToString(Len(old_arr)) \o " to "
                        \o ToString(Len(new_arr)))>>
         ELSE <<>>)
        \o Concat([i \in 1..shorter |-> Element(i)])

Json_deduction(change) ==
    CASE change.change_type = "Addition" -> 5
      [] change.change_type = "Removal" -> 20
      [] change.change_type = "Modification" -> 10
      [] change.change_type = "Rename" -> 8

RECURSIVE U8Deductions(_, _, _)
\* the u8 accumulator of the scoring loops: saturating_add per change
U8Deductions(chs, Weight(_), deductions) ==
    IF chs = <<>> THEN deductions
    ELSE U8Deductions(Tail(chs), Weight, U8SaturatingAdd(deductions, Weight(Head(chs))))

Json_calculate_compatibility_score(chs) ==
    U8SaturatingSub(100, U8Deductions(chs, Json_deduction, 0))

\* Json_validate_changes with one error per Removal
Json_validate_changes_rejecting_removals(chs) ==
    OkValidation(Concat([i \in 1..Len(chs) |->
        IF chs[i].change_type = "Removal"
        THEN <<ValidationError("Breaking change: " \o chs[i].description,
                               chs[i].location, "JSON001")>>
        ELSE <<>>]))

Json_validate_changes(chs) == OkValidation(<<>>)

\* the report built from a change sequence (json_schema.rs 33-42)
Json_report(chs) ==
    LET compatibility_score == Json_calculate_compatibility_score(chs)
    IN  OkReport(chs, compatibility_score, compatibility_score >= 80, <<>>)

Json_analyze_compatibility(o, n) ==
    LET old_schema == Json_parse(o)
        new_schema == Json_parse(n)
    IN  IF ~old_schema.ok THEN ErrReport(old_schema.err)
        ELSE IF ~new_schema.ok THEN ErrReport(new_schema.err)
        ELSE Json_report(Json_compare_schemas(old_schema.doc, new_schema.doc, ""))

Json_generate_migration_path(o, n) ==
    LET old_schema == Json_parse(o)
        new_schema == Json_parse(n)
    IN  IF ~old_schema.ok THEN ErrPlan(old_schema.err)
        ELSE IF ~new_schema.ok THEN ErrPlan(new_schema.err)
        ELSE MigrationPlan_new(Json_compare_schemas(old_schema.doc, new_schema.doc, ""))

(***************************************************************************)
(* The SQL DDL analyzer (analyzer/sql.rs).                                 *)
(* A parsed script is a sequence of Statements [kind, name, columns]; kind *)
(* is "CreateTable" or another statement kind.  A ColumnDef is [name,      *)
(* data_type, options]; data_type is the {:?} rendering of the DataType;   *)
(* a ColumnOption is [kind, is_primary, arg] with kind "NotNull", "Null",  *)
(* "Default", "Unique", "Check", ...                                       *)
(***************************************************************************)

ColumnOption(kind, is_primary, arg) == [kind |-> kind, is_primary |-> is_primary, arg |-> arg]

\* Parser::parse_sql(..).map_err(ParseError)
Sql_parse_tables(content) ==
    IF content.syntax = "sql" THEN ParseOk(content.doc)
    ELSE ParseErr(content.doc, "ParseError")

\* {:?} of a ColumnOption
Sql_debug_option(opt) ==
    CASE opt.kind = "Unique" ->
            "Unique { is_primary: " \o (IF opt.is_primary THEN "true" ELSE "false")
                \o ", characteristics: None }"
      [] opt.kind \in {"Default", "Check"} -> opt.kind \o "(" \o opt.arg \o ")"
      [] OTHER -> opt.kind

\* Sql_same_constraint comparing the value of a DEFAULT as well
Sql_same_constraint_with_default_value(old_opt, new_opt) ==
    CASE old_opt.kind = "NotNull" /\ new_opt.kind = "NotNull" -> TRUE
      [] old_opt.kind = "Default" /\ new_opt.kind = "Default" -> old_opt.arg = new_opt.arg
      [] old_opt.kind = "Unique" /\ new_opt.kind = "Unique" ->
            old_opt.is_primary = new_opt.is_primary
      [] OTHER -> FALSE

\* the match of compare_column_constraints: the same constraint kind
Sql_same_constraint(old_opt, new_opt) ==
    CASE old_opt.kind = "NotNull" /\ new_opt.kind = "NotNull" -> TRUE
      [] old_opt.kind = "Default" /\ new_opt.kind = "Default" -> TRUE
      [] old_opt.kind = "Unique" /\ new_opt.kind = "Unique" ->
            old_opt.is_primary = new_opt.is_primary
      [] OTHER -> FALSE

Sql_compare_column_constraints(table_name, column_name, old_options, new_options) ==
    LET OldOpt(old_opt) ==
            IF ~\E j \in 1..Len(new_options) : Sql_same_constraint(old_opt, new_options[j])
            THEN <<SchemaChange("Removal",
                       table_name \o "/" \o column_name \o "/constraints",
                       "Constraint removed from column '" \o column_name \o "': "
                           \o Sql_debug_option(old_opt))>>
            ELSE <<>>
        NewOpt(new_opt) ==
            IF ~\E j \in 1..Len(old_options) : Sql_same_constraint(old_options[j], new_opt)
            THEN <<SchemaChange("Addition",
                       table_name \o "/" \o column_name \o "/constraints",
                       "New constraint added to column '" \o column_name \o "': "
                           \o Sql_debug_option(new_opt))>>
            ELSE <<>>
    IN  Concat(Map(OldOpt, old_options)) \o Concat(Map(NewOpt, new_options))

Sql_compare_columns(table_name, old_columns, new_columns) ==
    LET OldCol(old_col) ==
            LET i == FindFirst(new_columns, LAMBDA c : c.name = old_col.name)
            IN  IF i # 0
                THEN (IF old_col.data_type # new_columns[i].data_type
                      THEN <<SchemaChange("Modification",
                                 table_name \o "/" \o old_col.name,
                                 "Column '" \o old_col.name \o "' type changed from "
                                     \o old_col.data_type \o " to "
                                     \o new_columns[i].data_type)>>
                      ELSE <<>>)
                     \o Sql_compare_column_constraints(table_name, old_col.name,
                            old_col.options, new_columns[i].options)
                ELSE <<SchemaChange("Removal", table_name \o "/" \o old_col.name,
                           "Column '" \o old_col.name \o "' was removed")>>
        NewCol(new_col) ==
            IF ~\E j \in 1..Len(old_columns) : old_columns[j].name = new_col.name
            THEN <<SchemaChange("Addition", table_name \o "/" \o new_col.name,
                       "New column '" \o new_col.name \o "' was added")>>
            ELSE <<>>
    IN  Concat(Map(OldCol, old_columns)) \o Concat(Map(NewCol, new_columns))

\* compare_schemas: when either script does not parse, nothing is pushed
Sql_compare_schemas(o, n) ==
    LET old_tables == Sql_parse_tables(o)
        new_tables == Sql_parse_tables(n)
        OldTable(old_table) ==
            IF old_table.kind = "CreateTable"
            THEN LET i == FindFirst(new_tables.doc,
                               LAMBDA t : t.kind = "CreateTable" /\ t.name = old_table.name)
                 IN  IF i # 0
                     THEN Sql_compare_columns(old_table.name, old_table.columns,
                                              new_tables.doc[i].columns)
                     ELSE <<SchemaChange("Removal", "table/" \o old_table.name,
                                "Table '" \o old_table.name \o "' was removed")>>
            ELSE <<>>
        NewTable(new_table) ==
            IF new_table.kind = "CreateTable"
               /\ ~\E j \in 1..Len(old_tables.doc) :
                      /\ old_tables.doc[j].kind = "CreateTable"
                      /\ old_tables.doc[j].name = new_table.name
            THEN <<SchemaChange("Addition", "table/" \o new_table.name,
                       "New table '" \o new_table.name \o "' was added")>>
            ELSE <<>>
    IN  IF old_tables.ok /\ new_tables.ok
        THEN Concat(Map(OldTable, old_tables.doc)) \o Concat(Map(NewTable, new_tables.doc))
        ELSE <<>>

\* Sql_deduction with the Removal weight of the other dialects
Sql_deduction_removal_20(change) ==
    CASE change.change_type = "Addition" -> 5
      [] change.change_type = "Removal" -> 20
      [] change.change_type = "Modification" -> 10
      [] change.change_type = "Rename" -> 8

Sql_deduction(change) ==
    CASE change.change_type = "Addition" -> 5
      [] change.change_type = "Removal" -> 15
      [] change.change_type = "Modification" -> 10
      [] change.change_type = "Rename" -> 8

Sql_calculate_compatibility_score(chs) ==
    U8SaturatingSub(100, U8Deductions(chs, Sql_deduction, 0))

Sql_validate_change(change) ==
    CASE change.change_type = "Removal" ->
            <<CompatibilityIssue("Error", "Breaking change: " \o change.description,
                                 change.location)>>
      [] change.change_type = "Modification" ->
            IF Contains(change.location, "type")
            THEN <<CompatibilityIssue("Warning",
                       "Potential data loss: " \o change.description, change.location)>>
            ELSE <<>>
      [] OTHER -> <<>>

Sql_validate_changes(chs) ==
    LET Err(issue) ==
            ValidationError(issue.description, issue.location,
                CASE issue.severity = "Error" -> "SQL001"
                  [] issue.severity = "Warning" -> "SQL002"
                  [] issue.severity = "Info" -> "SQL003")
    IN  OkValidation(Map(Err, Concat(Map(Sql_validate_change, chs))))

\* the report built from a change sequence (sql.rs 33-50)
Sql_report(chs) ==
    LET compatibility_score == Sql_calculate_compatibility_score(chs)
        validation_result == Sql_validate_changes(chs)
        Issue(err) ==
            CompatibilityIssue(
                CASE err.code = "SQL001" -> "Error"
                  [] err.code = "SQL002" -> "Warning"
                  [] OTHER -> "Info",
                err.message, err.path)
    IN  OkReport(chs, compatibility_score, compatibility_score >= 80,
                 Map(Issue, validation_result.errors))

Sql_analyze_compatibility(o, n) == Sql_report(Sql_compare_schemas(o, n))

Sql_generate_migration_path(o, n) == MigrationPlan_new(Sql_compare_schemas(o, n))

(***************************************************************************)
(* The OpenAPI analyzer (analyzer/openapi.rs).                             *)
(* An OpenAPI document is [paths, components].  paths is the sequence (an  *)
(* IndexMap, in document order) of [path, is_ref, ops]: is_ref marks a     *)
(* ReferenceOr::Reference path item, ops holds the operations the item     *)
(* has, each [method, parameters, request_body, responses].  A parameter   *)
(* is [is_ref, name, required, schema_type]; request_body is [present,     *)
(* body]; responses is the sequence of [status, body].  components is      *)
(* [present, schemas, security_schemes], both sequences of [name, body].   *)
(* A body stands for the content the code compares only by equality.       *)
(* ValidationResult.context (counts per change type) is not modelled.      *)
(***************************************************************************)

\* analyze_compatibility reads the content with serde_yaml (YAML, and JSON
\* as a subset of it)
OpenApi_parse_yaml(content) ==
    IF content.syntax \in {"json", "yaml"} THEN ParseOk(content.doc)
    ELSE ParseErr(content.doc, "ParseError")

\* parse_openapi reads the content with serde_json
OpenApi_parse_openapi(content) ==
    IF content.syntax = "json" THEN ParseOk(content.doc)
    ELSE ParseErr(content.doc, "ParseError")

Methods == <<"get", "post", "put", "delete", "patch", "head", "options">>

\* get_operation: the index in item.ops of the operation of `method`, 0 for None
OpenApi_get_operation(item, method) == FindFirst(item.ops, LAMBDA op : op.method = method)

\* OpenApi_compare_parameters reporting a parameter that new no longer has
OpenApi_compare_parameters_with_removals(path, method, old_params, new_params) ==
    LET OldParam(old_param) ==
            IF old_param.is_ref THEN <<>>
            ELSE LET i == FindFirst(new_params,
                               LAMBDA p : ~p.is_ref /\ p.name = old_param.name)
                     location == "paths/" \o path \o "/" \o method \o "/parameters/"
                                     \o old_param.name
                 IN  IF i = 0
                     THEN <<SchemaChange("Removal", location,
                                "Parameter '" \o old_param.name \o "' was removed")>>
                     ELSE IF ~old_param.required /\ new_params[i].required
                     THEN <<SchemaChange("Modification", location,
                                "Parameter '" \o old_param.name
                                    \o "' changed from optional to required")>>
                     ELSE <<>>
    IN  Concat(Map(OldParam, old_params))

OpenApi_compare_parameters(path, method, old_params, new_params) ==
    LET OldParam(old_param) ==
            IF old_param.is_ref THEN <<>>
            ELSE LET i == FindFirst(new_params,
                               LAMBDA p : ~p.is_ref /\ p.name = old_param.name)
                 IN  IF i # 0 /\ ~old_param.required /\ new_params[i].required
                     THEN <<SchemaChange("Modification",
                                "paths/" \o path \o "/" \o method \o "/parameters/"
                                    \o old_param.name,
                                "Parameter '" \o old_param.name
                                    \o "' changed from optional to required")>>
                     ELSE <<>>
    IN  Concat(Map(OldParam, old_params))

OpenApi_compare_request_bodies(path, method, old_body, new_body) ==
    LET location == "/paths" \o path \o "/" \o method \o "/requestBody"
    IN  CASE old_body.present /\ ~new_body.present ->
                <<SchemaChange("Removal", location, "Request body was removed")>>
          [] ~old_body.present /\ new_body.present ->
                <<SchemaChange("Addition", location, "Request body was added")>>
          [] old_body.present /\ new_body.present ->
                IF old_body # new_body
                THEN <<SchemaChange("Modification", location, "Request body was modified")>>
                ELSE <<>>
          [] OTHER -> <<>>

OpenApi_compare_responses(path, method, old_responses, new_responses) ==
    LET Location(status) == "/paths" \o path \o "/" \o method \o "/responses/" \o status
        OldResp(old_response) ==
            LET i == FindFirst(new_responses, LAMBDA r : r.status = old_response.status)
            IN  IF i # 0
                THEN IF old_response # new_responses[i]
                     THEN <<SchemaChange("Modification", Location(old_response.status),
                                "Response '" \o old_response.status \o "' was modified")>>
                     ELSE <<>>
                ELSE <<SchemaChange("Removal", Location(old_response.status),
                           "Response '" \o old_response.status \o "' was removed")>>
        NewResp(new_response) ==
            IF ~\E j \in 1..Len(old_responses) : old_responses[j].status = new_response.status
            THEN <<SchemaChange("Addition", Location(new_response.status),
                       "Response '" \o new_response.status \o "' was added")>>
            ELSE <<>>
    IN  Concat(Map(OldResp, old_responses)) \o Concat(Map(NewResp, new_responses))

OpenApi_compare_operation_details(path, method, old_op, new_op) ==
    OpenApi_compare_parameters(path, method, old_op.parameters, new_op.parameters)
        \o OpenApi_compare_request_bodies(path, method, old_op.request_body,
                                          new_op.request_body)
        \o OpenApi_compare_responses(path, method, old_op.responses, new_op.responses)

OpenApi_compare_operations(path, old_item, new_item) ==
    LET Method(method) ==
            LET i == OpenApi_get_operation(old_item, method)
                j == OpenApi_get_operation(new_item, method)
            IN  CASE i # 0 /\ j # 0 ->
                        OpenApi_compare_parameters(path, method, old_item.ops[i].parameters,
                                                   new_item.ops[j].parameters)
                            \o OpenApi_compare_operation_details(path, method,
                                   old_item.ops[i], new_item.ops[j])
                  [] i # 0 /\ j = 0 ->
                        <<SchemaChange("Removal", "/paths" \o path \o "/" \o method,
                              "HTTP method '" \o method \o "' was removed from '"
                                  \o path \o "'")>>
                  [] i = 0 /\ j # 0 ->
                        <<SchemaChange("Addition", "/paths" \o path \o "/" \o method,
                              "HTTP method '" \o method \o "' was added to '"
                                  \o path \o "'")>>
                  [] OTHER -> <<>>
    IN  Concat(Map(Method, Methods))

OpenApi_compare_path_items(path, old_item, new_item) ==
    IF ~old_item.is_ref /\ ~new_item.is_ref
    THEN OpenApi_compare_operations(path, old_item, new_item)
    ELSE <<>>

OpenApi_compare_paths(old_api, new_api) ==
    LET OldPath(old_item) ==
            LET i == FindFirst(new_api.paths, LAMBDA p : p.path = old_item.path)
            IN  IF i # 0
                THEN OpenApi_compare_path_items(old_item.path, old_item, new_api.paths[i])
                ELSE <<SchemaChange("Removal", "/paths/" \o old_item.path,
                           "Removed path: " \o old_item.path)>>
        NewPath(new_item) ==
            IF ~\E j \in 1..Len(old_api.paths) : old_api.paths[j].path = new_item.path
            THEN <<SchemaChange("Addition", "/paths/" \o new_item.path,
                       "Added path: " \o new_item.path)>>
            ELSE <<>>
    IN  Concat(Map(OldPath, old_api.paths)) \o Concat(Map(NewPath, new_api.paths))

OpenApi_compare_components(old_api, new_api) ==
    LET old_schemas == old_api.components.schemas
        new_schemas == new_api.components.schemas
        OldSchema(old_schema) ==
            LET i == FindFirst(new_schemas, LAMBDA c : c.name = old_schema.name)
            IN  IF i # 0
                THEN IF old_schema # new_schemas[i]
                     THEN <<SchemaChange("Modification",
                                "/components/schemas/" \o old_schema.name,
                                "Schema '" \o old_schema.name \o "' was modified")>>
                     ELSE <<>>
                ELSE <<SchemaChange("Removal", "/components/schemas/" \o old_schema.name,
                           "Schema '" \o old_schema.name \o "' was removed")>>
        NewSchema(new_schema) ==
            IF ~\E j \in 1..Len(old_schemas) : old_schemas[j].name = new_schema.name
            THEN <<SchemaChange("Addition", "/components/schemas/" \o new_schema.name,
                       "Schema '" \o new_schema.name \o "' was added")>>
            ELSE <<>>
    IN  IF old_api.components.present /\ new_api.components.present
        THEN Concat(Map(OldSchema, old_schemas)) \o Concat(Map(NewSchema, new_schemas))
        ELSE <<>>

OpenApi_compare_security(old_api, new_api) ==
    LET old_schemes == old_api.components.security_schemes
        new_schemes == new_api.components.security_schemes
        OldScheme(old_scheme) ==
            LET i == FindFirst(new_schemes, LAMBDA c : c.name = old_scheme.name)
            IN  IF i # 0
                THEN IF old_scheme # new_schemes[i]
                     THEN <<SchemaChange("Modification",
                                "/components/securitySchemes/" \o old_scheme.name,
                                "Security scheme '" \o old_scheme.name \o "' was modified")>>
                     ELSE <<>>
                ELSE <<SchemaChange("Removal",
                           "/components/securitySchemes/" \o old_scheme.name,
                           "Security scheme '" \o old_scheme.name \o "' was removed")>>
    IN  IF old_api.components.present /\ new_api.components.present
        THEN Concat(Map(OldScheme, old_schemes))
        ELSE <<>>

OpenApi_compare_apis(old_api, new_api) ==
    OpenApi_compare_paths(old_api, new_api)
        \o OpenApi_compare_components(old_api, new_api)
        \o OpenApi_compare_security(old_api, new_api)

\* the two path loops of analyze_compatibility (openapi.rs 38-73)
OpenApi_analyze_paths(old_spec, new_spec) ==
    LET OldPath(old_item) ==
            IF old_item.is_ref THEN <<>>
            ELSE LET i == FindFirst(new_spec.paths, LAMBDA p : p.path = old_item.path)
                 IN  IF i # 0
                     THEN IF ~new_spec.paths[i].is_ref
                          THEN OpenApi_compare_operations(old_item.path, old_item,
                                                          new_spec.paths[i])
                          ELSE <<>>
                     ELSE <<SchemaChange("Removal", "paths/" \o old_item.path,
                                "Path '" \o old_item.path \o "' was removed")>>
        NewPath(new_item) ==
            IF ~new_item.is_ref
               /\ ~\E j \in 1..Len(old_spec.paths) : old_spec.paths[j].path = new_item.path
            THEN <<SchemaChange("Addition", "paths/" \o new_item.path,
                       "New path '" \o new_item.path \o "' was added")>>
            ELSE <<>>
    IN  Concat(Map(OldPath, old_spec.paths)) \o Concat(Map(NewPath, new_spec.paths))

OpenApi_deduction(change) ==
    CASE change.change_type = "Addition" -> 5
      [] change.change_type = "Removal" -> 20
      [] change.change_type = "Modification" ->
            IF Contains(change.description, "optional to required") THEN 25 ELSE 10
      [] change.change_type = "Rename" -> 8

\* the i32 score: i32::saturating_sub does not stop at zero
OpenApi_calculate_compatibility_score(chs) ==
    I32SaturatingSub(100, SumSeq(Map(OpenApi_deduction, chs)))

\* OpenApi_validate_change without the location and description tests
OpenApi_validate_change_any_modification(change) ==
    CASE change.change_type = "Removal" ->
            <<ValidationError("Breaking change: " \o change.description,
                              change.location, "API001")>>
      [] change.change_type = "Modification" ->
            <<ValidationError("Breaking change: " \o change.description,
                              change.location, "API002")>>
      [] OTHER -> <<>>

OpenApi_validate_change(change) ==
    CASE change.change_type = "Removal" ->
            <<ValidationError("Breaking change: " \o change.description,
                              change.location, "API001")>>
      [] change.change_type = "Modification" ->
            IF \/ /\ Contains(change.location, "parameters")
                  /\ Contains(change.description, "required")
               \/ /\ Contains(change.location, "schema")
                  /\ Contains(change.description, "type")
            THEN <<ValidationError("Breaking change: " \o change.description,
                                   change.location, "API002")>>
            ELSE <<>>
      [] OTHER -> <<>>

OpenApi_validate_changes(chs) == OkValidation(Concat(Map(OpenApi_validate_change, chs)))

\* the report built from a change sequence (openapi.rs 79-96): the score is
\* stored `as u8`, is_compatible is decided on the i32
OpenApi_report(chs) ==
    LET compatibility_score == OpenApi_calculate_compatibility_score(chs)
        validation_result == OpenApi_validate_changes(chs)
        Issue(err) ==
            CompatibilityIssue(
                CASE err.code = "API001" -> "Error"
                  [] err.code = "API002" -> "Warning"
                  [] OTHER -> "Info",
                err.message, err.path)
    IN  OkReport(chs, AsU8(compatibility_score), compatibility_score >= 80,
                 Map(Issue, validation_result.errors))

OpenApi_analyze_compatibility(o, n) ==
    LET old_spec == OpenApi_parse_yaml(o)
        new_spec == OpenApi_parse_yaml(n)
    IN  IF ~old_spec.ok THEN ErrReport(old_spec.err)
        ELSE IF ~new_spec.ok THEN ErrReport(new_spec.err)
        ELSE OpenApi_report(OpenApi_analyze_paths(old_spec.doc, new_spec.doc))

OpenApi_generate_migration_path(o, n) ==
    LET old_api == OpenApi_parse_openapi(o)
        new_api == OpenApi_parse_openapi(n)
    IN  IF ~old_api.ok THEN ErrPlan(old_api.err)
        ELSE IF ~new_api.ok THEN ErrPlan(new_api.err)
        ELSE MigrationPlan_new(OpenApi_compare_apis(old_api.doc, new_api.doc))

(***************************************************************************)
(* The analyzer contract (analyzer.rs): the SchemaAnalyzer trait, by       *)
(* dialect.                                                                *)
(***************************************************************************)

Dialects == {"JsonSchema", "OpenAPI", "Protobuf", "SqlDDL"}

analyze_compatibility(d, o, n) ==
    CASE d = "JsonSchema" -> Json_analyze_compatibility(o, n)
      [] d = "OpenAPI" -> OpenApi_analyze_compatibility(o, n)
      [] d = "Protobuf" -> Protobuf_analyze_compatibility(o, n)
      [] d = "SqlDDL" -> Sql_analyze_compatibility(o, n)

generate_migration_path(d, o, n) ==
    CASE d = "JsonSchema" -> Json_generate_migration_path(o, n)
      [] d = "OpenAPI" -> OpenApi_generate_migration_path(o, n)
      [] d = "Protobuf" -> Protobuf_generate_migration_path(o, n)
      [] d = "SqlDDL" -> Sql_generate_migration_path(o, n)

validate_changes(d, chs) ==
    CASE d = "JsonSchema" -> Json_validate_changes(chs)
      [] d = "OpenAPI" -> OpenApi_validate_changes(chs)
      [] d = "Protobuf" -> Protobuf_validate_changes(chs)
      [] d = "SqlDDL" -> Sql_validate_changes(chs)

\* the tail of analyze_compatibility: the report an analyzer builds from the
\* change sequence its comparison detected
build_report(d, chs) ==
    CASE d = "JsonSchema" -> Json_report(chs)
      [] d = "OpenAPI" -> OpenApi_report(chs)
      [] d = "Protobuf" -> Protobuf_report(chs)
      [] d = "SqlDDL" -> Sql_report(chs)

\* the deduction sum of a change sequence, per dialect
deduction_sum(d, chs) ==
    CASE d = "JsonSchema" -> SumSeq(Map(Json_deduction, chs))
      [] d = "OpenAPI" -> SumSeq(Map(OpenApi_deduction, chs))
      [] d = "Protobuf" -> SumSeq(Map(Protobuf_deduction, chs))
      [] d = "SqlDDL" -> SumSeq(Map(Sql_deduction, chs))

\* the comparison analyze_compatibility runs on two parsed documents
detect_changes(d, o, n) ==
    CASE d = "JsonSchema" -> Json_compare_schemas(o.doc, n.doc, "")
      [] d = "OpenAPI" -> OpenApi_analyze_paths(o.doc, n.doc)
      [] d = "Protobuf" -> Protobuf_compare_descriptors(o.doc, n.doc, "")
      [] d = "SqlDDL" -> Sql_compare_schemas(o, n)

\* whether the dialect's parser of generate_migration_path reads the content
generate_parses(d, content) ==
    CASE d = "JsonSchema" -> Json_parse(content).ok
      [] d = "OpenAPI" -> OpenApi_parse_openapi(content).ok
      [] d = "Protobuf" -> Protobuf_parse_proto(content).ok
      [] d = "SqlDDL" -> Sql_parse_tables(content).ok

\* whether the dialect's parser of analyze_compatibility reads the content
parses(d, content) ==
    CASE d = "JsonSchema" -> Json_parse(content).ok
      [] d = "OpenAPI" -> OpenApi_parse_yaml(content).ok
      [] d = "Protobuf" -> Protobuf_parse_proto(content).ok
      [] d = "SqlDDL" -> Sql_parse_tables(content).ok

(***************************************************************************)
(* The schemas compared.  Each dialect has a bounded set of contents: the  *)
(* documents of the spec's scenarios and of the repository's tests, varied *)
(* along each dimension the analyzers look at, plus contents the dialect's *)
(* parser rejects.                                                         *)
(***************************************************************************)

MaxFields == 6
MaxParams == 3

\* ---- Protobuf: message User with a choice of fields, message Profile ----

FieldNames == <<"id", "name", "email", "phone", "address", "age", "city", "zip">>

\* the first k fields without the one at position skip (0: none skipped)
ProtoFields(k, skip, first_type) ==
    LET all == [i \in 1..k |->
                   [name |-> FieldNames[i],
                    type |-> IF i = 1 THEN first_type ELSE "TYPE_STRING"]]
    IN  SelectSeq(all, LAMBDA f : skip = 0 \/ f.name # FieldNames[skip])

ProtoUsers ==
    {[name |-> "User", field |-> ProtoFields(k, skip, "TYPE_INT32")] :
        k \in 0..MaxFields, skip \in 0..MaxFields}
    \cup {[name |-> "User", field |-> ProtoFields(k, 0, "TYPE_INT64")] : k \in 1..MaxFields}

ProtoProfile == [name |-> "Profile", field |-> ProtoFields(1, 0, "TYPE_INT32")]

ProtoDocs ==
    {[message_type |-> m] :
        m \in {<<>>, <<ProtoProfile>>}
              \cup {<<u>> : u \in ProtoUsers}
              \cup {<<u, ProtoProfile>> : u \in ProtoUsers}}

\* "proto" is .proto source text, which the text-format parser does not read
ProtoContents ==
    {Content("textproto", doc) : doc \in ProtoDocs}
    \cup {Content(syntax, [message_type |-> <<>>]) : syntax \in {"proto", "garbage"}}

\* ---- JSON Schema: an object schema with properties name and age ----

JsonTypeObject(type) == JObject(<<JMember("type", JString(type))>>)

\* type "" is an absent property; required.present = FALSE an absent keyword
JsonSchemaDoc(name_type, age_type, required) ==
    LET properties ==
            (IF age_type # "" THEN <<JMember("age", JsonTypeObject(age_type))>> ELSE <<>>)
            \o (IF name_type # "" THEN <<JMember("name", JsonTypeObject(name_type))>>
                ELSE <<>>)
    IN  JObject(<<JMember("properties", JObject(properties))>>
                \o (IF required.present
                    THEN <<JMember("required",
                               JArray([i \in 1..Len(required.list) |->
                                          JString(required.list[i])]))>>
                    ELSE <<>>)
                \o <<JMember("type", JString("object"))>>)

JsonRequired ==
    {[present |-> FALSE, list |-> <<>>]}
    \cup {[present |-> TRUE, list |-> l] :
             l \in {<<>>, <<"name">>, <<"age">>, <<"name", "age">>}}

JsonDocs ==
    {JsonSchemaDoc(n, a, r) :
        n \in {"", "string", "integer"}, a \in {"", "string", "integer"}, r \in JsonRequired}
    \cup {JNull, JString("object"),
          JArray(<<JsonTypeObject("string")>>),
          JArray(<<JsonTypeObject("string"), JsonTypeObject("integer")>>)}

JsonContents ==
    {Content("json", doc) : doc \in JsonDocs} \cup {Content("garbage", JNull)}

\* ---- SQL DDL: table users with a choice of columns, table orders ----

Column(name, data_type, options) ==
    [name |-> name, data_type |-> data_type, options |-> options]

CreateTable(name, columns) == [kind |-> "CreateTable", name |-> name, columns |-> columns]

OtherStatement == [kind |-> "CreateIndex", name |-> "users_name_idx", columns |-> <<>>]

NotNullOpt == ColumnOption("NotNull", FALSE, "")
NullOpt == ColumnOption("Null", FALSE, "")
PrimaryKeyOpt == ColumnOption("Unique", TRUE, "")
UniqueOpt == ColumnOption("Unique", FALSE, "")
DefaultOpt(value) == ColumnOption("Default", FALSE, value)
CheckOpt == ColumnOption("Check", FALSE, "id > 0")

SqlIdOptions ==
    {<<PrimaryKeyOpt>>, <<UniqueOpt>>, <<>>, <<NotNullOpt>>, <<NullOpt>>, <<CheckOpt>>,
     <<DefaultOpt("0")>>, <<DefaultOpt("1")>>, <<NotNullOpt, DefaultOpt("0")>>}

\* a data type "" is an absent column
SqlUsers(id_options, name_type, name_options, email_type, kind_type) ==
    CreateTable("users",
        <<Column("id", "Integer(None)", id_options)>>
        \o (IF name_type # "" THEN <<Column("name", name_type, name_options)>> ELSE <<>>)
        \o (IF email_type # "" THEN <<Column("email", email_type, <<>>)>> ELSE <<>>)
        \o (IF kind_type # "" THEN <<Column("account_type", kind_type, <<>>)>> ELSE <<>>))

SqlUsersTables ==
    {SqlUsers(o, t, <<NotNullOpt>>, "", "") : o \in SqlIdOptions, t \in {"", "Text"}}
    \cup {SqlUsers(<<PrimaryKeyOpt>>, t, o, e, "") :
             t \in {"", "Text", "Varchar(None)"}, o \in {<<NotNullOpt>>},
             e \in {"", "Text"}}
    \cup {SqlUsers(<<PrimaryKeyOpt>>, "Text", <<>>, e, "") : e \in {"", "Text"}}
    \cup {SqlUsers(<<PrimaryKeyOpt>>, "Text", <<NotNullOpt>>, "", k) :
             k \in {"Integer(None)", "Text"}}

SqlOrders == CreateTable("orders", <<Column("id", "Integer(None)", <<PrimaryKeyOpt>>)>>)

SqlDocs ==
    {<<>>, <<SqlOrders>>, <<OtherStatement>>}
    \cup {<<u>> : u \in SqlUsersTables}
    \cup {<<u, SqlOrders>> : u \in SqlUsersTables}
    \cup {<<OtherStatement, SqlUsers(<<PrimaryKeyOpt>>, "Text", <<NotNullOpt>>, "", "")>>}

SqlContents == {Content("sql", doc) : doc \in SqlDocs} \cup {Content("garbage", <<>>)}

\* ---- OpenAPI: paths /users and /users/{id}, components ----

ParamNames == <<"limit", "offset", "page", "sort", "filter">>

Parameter(name, required, schema_type) ==
    [is_ref |-> FALSE, name |-> name, required |-> required, schema_type |-> schema_type]

RefParameter == [is_ref |-> TRUE, name |-> "", required |-> FALSE, schema_type |-> ""]

NoBody == [present |-> FALSE, body |-> ""]
Body(body) == [present |-> TRUE, body |-> body]
Response(status, body) == [status |-> status, body |-> body]

Operation(method, parameters, request_body, responses) ==
    [method |-> method, parameters |-> parameters, request_body |-> request_body,
     responses |-> responses]

PathItem(path, ops) == [path |-> path, is_ref |-> FALSE, ops |-> ops]
RefPathItem(path) == [path |-> path, is_ref |-> TRUE, ops |-> <<>>]

NoComponents == [present |-> FALSE, schemas |-> <<>>, security_schemes |-> <<>>]
Components(schemas, security_schemes) ==
    [present |-> TRUE, schemas |-> schemas, security_schemes |-> security_schemes]

Success == <<Response("200", "Success")>>

\* the parameter lists: each of the first MaxParams names absent, optional or
\* required; and a first parameter of another schema type or given by reference
OpenApiParams ==
    {LET all == [i \in 1..MaxParams |-> [name |-> ParamNames[i], state |-> f[i]]]
         present == SelectSeq(all, LAMBDA e : e.state # "absent")
     IN  [i \in 1..Len(present) |->
             Parameter(present[i].name, present[i].state = "required", "integer")] :
        f \in [1..MaxParams -> {"absent", "optional", "required"}]}
    \cup {<<Parameter(ParamNames[1], r, "string")>> : r \in BOOLEAN}
    \cup {<<RefParameter>>}

GetUsers(parameters, request_body, responses) ==
    PathItem("/users", <<Operation("get", parameters, request_body, responses)>>)

OpenApiPaths ==
    {<<GetUsers(p, NoBody, Success)>> : p \in OpenApiParams}
    \cup {<<GetUsers(<<>>, b, r)>> :
             b \in {NoBody, Body("User"), Body("UserInput")},
             r \in {<<>>, Success, <<Response("200", "OK")>>,
                    Success \o <<Response("404", "Not found")>>}}
    \cup {u \o i :
             u \in {<<>>, <<RefPathItem("/users")>>, <<GetUsers(<<>>, NoBody, Success)>>,
                    <<PathItem("/users", <<Operation("get", <<>>, NoBody, Success),
                                           Operation("post", <<>>, NoBody, Success)>>)>>,
                    <<PathItem("/users", <<Operation("post", <<>>, NoBody, Success)>>)>>},
             i \in {<<>>, <<RefPathItem("/users/{id}")>>,
                    <<PathItem("/users/{id}", <<Operation("get", <<>>, NoBody, Success)>>)>>}}

OpenApiComponents ==
    {Components(sc, se) :
        sc \in {<<>>, <<[name |-> "User", body |-> "object"]>>,
                <<[name |-> "User", body |-> "string"]>>},
        se \in {<<>>, <<[name |-> "apiKey", body |-> "header"]>>,
                <<[name |-> "apiKey", body |-> "query"]>>}}

OpenApiDocs ==
    {[paths |-> p, components |-> NoComponents] : p \in OpenApiPaths}
    \cup {[paths |-> <<GetUsers(<<>>, NoBody, Success)>>, components |-> c] :
             c \in OpenApiComponents}

OpenApiContents ==
    {Content("json", doc) : doc \in OpenApiDocs}
    \cup {Content("yaml", [paths |-> p, components |-> NoComponents]) :
             p \in {<<GetUsers(<<>>, NoBody, Success)>>,
                    <<GetUsers(<<>>, NoBody, Success),
                      PathItem("/users/{id}",
                               <<Operation("get", <<>>, NoBody, Success)>>)>>}}
    \cup {Content("garbage", [paths |-> <<>>, components |-> NoComponents])}

Contents(d) ==
    CASE d = "JsonSchema" -> JsonContents
      [] d = "OpenAPI" -> OpenApiContents
      [] d = "Protobuf" -> ProtoContents
      [] d = "SqlDDL" -> SqlContents

(***************************************************************************)
(* Spec: a caller holds two schemas of one dialect and calls the three     *)
(* operations of the analyzer contract; validate_changes is called on the  *)
(* changes of the report.                                                  *)
(***************************************************************************)

Init ==
    /\ dialect \in Dialects
    /\ old \in Contents(dialect)
    /\ new \in Contents(dialect)
    /\ changes = <<>>
    /\ report = NoReport
    /\ plan = NoPlan
    /\ validation = NoValidation
    /\ breaking = NoBreakingChanges

AnalyzeCompatibility ==
    /\ report.status = "None"
    /\ report' = analyze_compatibility(dialect, old, new)
    /\ UNCHANGED <<dialect, old, new, changes, plan, validation, breaking>>

GenerateMigrationPath ==
    /\ plan.status = "None"
    /\ plan' = generate_migration_path(dialect, old, new)
    /\ UNCHANGED <<dialect, old, new, changes, report, validation, breaking>>

ValidateChanges ==
    /\ report.status = "Ok"
    /\ validation.status = "None"
    /\ changes' = report.changes
    /\ validation' = validate_changes(dialect, report.changes)
    /\ UNCHANGED <<dialect, old, new, report, plan, breaking>>

\* plan.breaking_changes() on the plan returned
BreakingChanges ==
    /\ plan.status = "Ok"
    /\ breaking.status = "None"
    /\ breaking' = [status |-> "Ok", changes |-> breaking_changes(plan)]
    /\ UNCHANGED <<dialect, old, new, changes, report, plan, validation>>

Next ==
    \/ AnalyzeCompatibility
    \/ GenerateMigrationPath
    \/ ValidateChanges
    \/ BreakingChanges

Spec == Init /\ [][Next]_vars

(***************************************************************************)
(* SpecChanges: the functions of a change sequence.  A caller holds a      *)
(* change sequence and applies to it validate_changes, MigrationPlan::new  *)
(* and the report construction of the dialect's analyzer.                  *)
(***************************************************************************)

MaxHead == 2
MaxRepeat == 7

SampleChanges ==
    {SchemaChange("Addition", "/User/email", "New field 'email' was added"),
     SchemaChange("Removal", "users/name", "Column 'name' was removed"),
     SchemaChange("Modification", "/properties/name/type",
         "Value changed from String(\"string\") to String(\"integer\")"),
     SchemaChange("Modification", "paths//users/get/parameters/limit",
         "Parameter 'limit' changed from optional to required"),
     SchemaChange("Modification", "/components/schemas/user_type",
         "Schema 'user_type' was modified"),
     SchemaChange("Rename", "users/name", "Column 'name' was renamed to 'full_name'")}

\* a head of at most MaxHead changes followed by at most MaxRepeat copies of one
ChangeSeqs ==
    {h \o [i \in 1..k |-> c] :
        h \in UNION {[1..n -> SampleChanges] : n \in 0..MaxHead},
        c \in SampleChanges, k \in 0..MaxRepeat}

EmptyContent(d) ==
    CASE d = "JsonSchema" -> Content("json", JObject(<<>>))
      [] d = "OpenAPI" -> Content("json", [paths |-> <<>>, components |-> NoComponents])
      [] d = "Protobuf" -> Content("textproto", [message_type |-> <<>>])
      [] d = "SqlDDL" -> Content("sql", <<>>)

InitChanges ==
    /\ dialect \in Dialects
    /\ old = EmptyContent(dialect)
    /\ new = EmptyContent(dialect)
    /\ changes \in ChangeSeqs
    /\ report = NoReport
    /\ plan = NoPlan
    /\ validation = NoValidation
    /\ breaking = NoBreakingChanges

BuildReport ==
    /\ report.status = "None"
    /\ report' = build_report(dialect, changes)
    /\ UNCHANGED <<dialect, old, new, changes, plan, validation, breaking>>

NewMigrationPlan ==
    /\ plan.status = "None"
    /\ plan' = MigrationPlan_new(changes)
    /\ UNCHANGED <<dialect, old, new, changes, report, validation, breaking>>

ValidateGivenChanges ==
    /\ validation.status = "None"
    /\ validation' = validate_changes(dialect, changes)
    /\ UNCHANGED <<dialect, old, new, changes, report, plan, breaking>>

NextChanges ==
    \/ BuildReport
    \/ NewMigrationPlan
    \/ ValidateGivenChanges
    \/ BreakingChanges

SpecChanges == InitChanges /\ [][NextChanges]_vars

(***************************************************************************)
(* Properties.                                                             *)
(***************************************************************************)

BothParse == parses(dialect, old) /\ parses(dialect, new)

\* (change type, location) of every change, in order
TypeAndLocation(chs) ==
    [i \in 1..Len(chs) |->
        [change_type |-> chs[i].change_type, location |-> chs[i].location]]

\* the number of occurrences of x in the sequence s
Count(x, s) == Cardinality({i \in 1..Len(s) : s[i] = x})

\* equality of two sequences as multisets
SameMultiset(s, t) ==
    /\ Len(s) = Len(t)
    /\ \A i \in 1..Len(s) : Count(s[i], s) = Count(s[i], t)

\* every Addition turned into a Removal and every Removal into an Addition
Mirror(chs) ==
    [i \in 1..Len(chs) |->
        [change_type |-> CASE chs[i].change_type = "Addition" -> "Removal"
                           [] chs[i].change_type = "Removal" -> "Addition"
                           [] OTHER -> chs[i].change_type,
         location |-> chs[i].location]]

\* new is old with parameter k of operation j of path item i changed by Changed
OneParameterChanged(Changed(_, _)) ==
    /\ dialect = "OpenAPI"
    /\ BothParse
    /\ new.syntax = old.syntax
    /\ \E i \in 1..Len(old.doc.paths) :
         /\ ~old.doc.paths[i].is_ref
         /\ \E j \in 1..Len(old.doc.paths[i].ops) :
              \E k \in 1..Len(old.doc.paths[i].ops[j].parameters) :
                 /\ ~old.doc.paths[i].ops[j].parameters[k].is_ref
                 /\ Len(new.doc.paths) >= i
                 /\ Len(new.doc.paths[i].ops) >= j
                 /\ Len(new.doc.paths[i].ops[j].parameters) >= k
                 /\ Changed(old.doc.paths[i].ops[j].parameters[k],
                            new.doc.paths[i].ops[j].parameters[k])
                 /\ new.doc =
                      [old.doc EXCEPT
                          !.paths[i].ops[j].parameters[k] =
                              new.doc.paths[i].ops[j].parameters[k]]

\* C1: for every dialect, when the detected change sequence has a deduction
\* sum greater than 100, analyze_compatibility returns a report whose
\* compatibility_score is exactly 0 (no wrapped value, no abort).
C1_Saturation ==
    (/\ report.status # "None"
     /\ BothParse
     /\ deduction_sum(dialect, detect_changes(dialect, old, new)) > 100)
    => (report.status = "Ok" /\ report.compatibility_score = 0)

\* C2: in every report returned by an analyzer, compatibility_score lies in
\* 0..100 and is_compatible is true exactly when that score is at least 80.
C2_ScoreAndVerdict ==
    report.status = "Ok"
    => /\ report.compatibility_score \in 0..100
       /\ report.is_compatible <=> (report.compatibility_score >= 80)

\* C3: when the content of the old or the new schema cannot be parsed,
\* analyze_compatibility and generate_migration_path return a failure and
\* produce no report and no plan.
C3_ParseFailureIsAnError ==
    ~BothParse
    => /\ report.status # "None" => report.status = "Err"
       /\ plan.status # "None" => plan.status = "Err"

\* C4: for every pair of parseable schemas, the changes of the plan returned
\* by generate_migration_path are the same sequence (types, locations,
\* order) as the changes of the report returned by analyze_compatibility.
C4_PlanChangesAreReportChanges ==
    (report.status = "Ok" /\ plan.status = "Ok")
    => TypeAndLocation(plan.changes) = TypeAndLocation(report.changes)

\* C5: comparing a parseable schema against itself yields an empty change
\* sequence, score 100, is_compatible = true and is_breaking = false.
C5_Identity ==
    (old = new /\ BothParse /\ generate_parses(dialect, old))
    => /\ report.status # "None"
          => /\ report.status = "Ok"
             /\ report.changes = <<>>
             /\ report.compatibility_score = 100
             /\ report.is_compatible
       /\ plan.status # "None"
          => /\ plan.status = "Ok"
             /\ plan.changes = <<>>
             /\ ~plan.is_breaking

\* C6: the changes of compare(new, old) are those of compare(old, new) with
\* Addition and Removal exchanged and every Modification kept, at the same
\* locations, as multisets of (type, location).
C6_Symmetry ==
    (report.status = "Ok" /\ BothParse)
    => SameMultiset(TypeAndLocation(detect_changes(dialect, new, old)),
                    Mirror(report.changes))

\* C7: for every dialect, change sequence s and change c, the
\* compatibility_score reported for s followed by c is not greater than the
\* one reported for s, and the impact_score of MigrationPlan::new on s
\* followed by c is not less than the one on s.
C7_ScoreMonotonicity ==
    \A c \in SampleChanges :
        LET longer == build_report(dialect, Append(changes, c))
        IN  /\ (report.status = "Ok" /\ longer.status = "Ok")
               => longer.compatibility_score <= report.compatibility_score
            /\ plan.status = "Ok"
               => MigrationPlan_new(Append(changes, c)).impact_score >= plan.impact_score

\* C8: OpenAPI: when the documents are identical except that one parameter
\* of one shared operation goes from required=false to required=true, the
\* report has exactly one change, a Modification whose description names the
\* parameter and contains 'optional to required', with score 75 and
\* is_compatible = false, and validate_changes yields an error API002.
C8_OptionalToRequired ==
    \A name \in {ParamNames[i] : i \in 1..Len(ParamNames)} :
        (/\ report.status = "Ok"
         /\ OneParameterChanged(LAMBDA o, n :
                /\ o.name = name
                /\ ~o.required
                /\ n = [o EXCEPT !.required = TRUE]))
        => /\ Len(report.changes) = 1
           /\ report.changes[1].change_type = "Modification"
           /\ Contains(report.changes[1].description, name)
           /\ Contains(report.changes[1].description, "optional to required")
           /\ report.compatibility_score = 75
           /\ ~report.is_compatible
           /\ validation.status = "Ok"
              => \E e \in 1..Len(validation.errors) : validation.errors[e].code = "API002"

\* C9: OpenAPI: when a parameter present under the same name in both versions
\* of a shared operation changes its schema type and nothing else differs,
\* the report has is_compatible = false and an issue of the most severe level.
C9_ParameterTypeChange ==
    (/\ report.status # "None"
     /\ OneParameterChanged(LAMBDA o, n :
            /\ n.schema_type # o.schema_type
            /\ n = [o EXCEPT !.schema_type = n.schema_type]))
    => /\ report.status = "Ok"
       /\ ~report.is_compatible
       /\ \E i \in 1..Len(report.issues) : report.issues[i].severity = "Error"

\* C10: for every pair of successfully parsed documents, analyze_compatibility
\* and generate_migration_path return a result and never abort.
C10_NoAbortAfterParsing ==
    BothParse => (report.status # "Panic" /\ plan.status # "Panic")

\* the kind of SchemaDiffError each dialect's parser failure is turned into
ParseFailureKind(d) ==
    CASE d = "JsonSchema" -> "JsonError"
      [] d = "OpenAPI" -> "ParseError"
      [] d = "Protobuf" -> "ProtobufError"
      [] d = "SqlDDL" -> "ParseError"

\* C11 (as claimed): when analyze_compatibility fails because a content
\* cannot be parsed, the error returned is of kind ParseError.
C11_ErrorIsParseError ==
    report.status = "Err" => report.err = "ParseError"

\* C11 (amended): when analyze_compatibility fails, a content could not be
\* parsed and the error is of the kind of the dialect's parser: JsonError for
\* JSON Schema, ProtobufError for Protobuf, ParseError for OpenAPI and SQL.
C11_ErrorKindOfDialect ==
    report.status = "Err"
    => (~BothParse /\ report.err = ParseFailureKind(dialect))

C11_JsonParseFailed ==
    /\ dialect = "JsonSchema"
    /\ ~parses(dialect, new)
    /\ report.status = "Err"
    /\ report.err = "JsonError"

\* C12: generate_migration_path fails with a parse error exactly when
\* analyze_compatibility fails with a parse error on the same pair of contents.
C12_SameParseFailures ==
    (report.status # "None" /\ plan.status # "None")
    => ((report.status = "Err") <=> (plan.status = "Err"))

\* the sequence s without its element at position i
RemoveAt(s, i) == SubSeq(s, 1, i - 1) \o SubSeq(s, i + 1, Len(s))

RECURSIVE JsonAddedKeys(_, _, _)
\* the locations L such that the value n is the value o with one object key
\* added at L and nothing else changed
JsonAddedKeys(o, n, path) ==
    IF o.t # n.t \/ o.t \notin {"object", "array"} THEN {}
    ELSE LET Sub(i) == IF o.t = "object" THEN path \o "/" \o n.c[i].k
                       ELSE path \o "/" \o ToString(i - 1)
         IN  {Sub(i) : i \in {j \in 1..Len(n.c) : o.t = "object" /\ RemoveAt(n.c, j) = o.c}}
             \cup UNION {JsonAddedKeys(o.c[i].v, n.c[i].v, Sub(i)) :
                            i \in {j \in 1..Len(o.c) :
                                      /\ Len(n.c) = Len(o.c)
                                      /\ n.c[j].k = o.c[j].k
                                      /\ n.c = [o.c EXCEPT ![j] = n.c[j]]}}

\* the locations of the one element that new adds to old, when the two parsed
\* documents differ by exactly one added element: a JSON object key, an OpenAPI
\* path, a field of a Protobuf message, an SQL column without constraints
AddedElements ==
    CASE dialect = "JsonSchema" -> JsonAddedKeys(old.doc, new.doc, "")
      [] dialect = "OpenAPI" ->
            {"paths/" \o new.doc.paths[k].path :
                k \in {j \in 1..Len(new.doc.paths) :
                          /\ RemoveAt(new.doc.paths, j) = old.doc.paths
                          /\ new.doc.components = old.doc.components}}
      [] dialect = "Protobuf" ->
            UNION {{"/" \o new.doc.message_type[i].name \o "/"
                        \o new.doc.message_type[i].field[k].name :
                      k \in {j \in 1..Len(new.doc.message_type[i].field) :
                                old.doc.message_type =
                                   [new.doc.message_type EXCEPT
                                       ![i].field = RemoveAt(@, j)]}} :
                   i \in 1..Len(new.doc.message_type)}
      [] dialect = "SqlDDL" ->
            UNION {{new.doc[i].name \o "/" \o new.doc[i].columns[k].name :
                      k \in {j \in 1..Len(new.doc[i].columns) :
                                /\ new.doc[i].kind = "CreateTable"
                                /\ new.doc[i].columns[j].options = <<>>
                                /\ old.doc = [new.doc EXCEPT
                                                 ![i].columns = RemoveAt(@, j)]}} :
                   i \in 1..Len(new.doc)}

\* C13: when the new schema differs from the old one only by one added
\* element, analyze_compatibility returns a compatible report whose changes
\* are exactly one Addition located at the added element.
C13_OneAddedElement ==
    (BothParse /\ report.status # "None" /\ AddedElements # {})
    => /\ report.status = "Ok"
       /\ report.is_compatible
       /\ Len(report.changes) = 1
       /\ report.changes[1].change_type = "Addition"
       /\ report.changes[1].location \in AddedElements

\* new is old with one field added to one existing message, both descriptors
\* parsed, and analyze_compatibility has returned
ProtobufFieldAdded ==
    /\ dialect = "Protobuf"
    /\ BothParse
    /\ AddedElements # {}
    /\ report.status # "None"

\* the report is exactly one Addition at /M/f with the given score, compatible
ProtobufOneAddition(score) ==
    /\ report.status = "Ok"
    /\ Len(report.changes) = 1
    /\ report.changes[1].change_type = "Addition"
    /\ report.changes[1].location \in AddedElements
    /\ report.compatibility_score = score
    /\ report.is_compatible

\* C14 (as claimed): Protobuf: one field f added to an existing message M
\* gives exactly one Addition at /M/f with compatibility_score 95 and
\* is_compatible = true.
C14_AddedFieldScores95 == ProtobufFieldAdded => ProtobufOneAddition(95)

\* C14 (amended): Protobuf: one field f added to an existing message M gives
\* exactly one Addition at /M/f with compatibility_score 100 (an Addition
\* deducts nothing in this dialect) and is_compatible = true.
C14_AddedFieldScores100 == ProtobufFieldAdded => ProtobufOneAddition(100)

C14_EmailAddedToUser ==
    /\ ProtobufFieldAdded
    /\ report.status = "Ok"
    /\ AddedElements = {"/User/email"}

\* new is old with exactly one column dropped from one table that stays in
\* place, and nothing else changed
SqlOneColumnDropped ==
    /\ dialect = "SqlDDL"
    /\ BothParse
    /\ \E i \in 1..Len(old.doc) :
          /\ old.doc[i].kind = "CreateTable"
          /\ \E k \in 1..Len(old.doc[i].columns) :
                new.doc = [old.doc EXCEPT ![i].columns = RemoveAt(@, k)]

\* C15: SQL: when a table present in both versions loses exactly one column
\* and nothing else changes, the report is exactly one Removal with score 85
\* and is_compatible = true and carries an Error issue for it, and the
\* migration plan has is_breaking = true.
C15_CompatibleAndBreaking ==
    SqlOneColumnDropped
    => /\ report.status # "None"
          => /\ report.status = "Ok"
             /\ Len(report.changes) = 1
             /\ report.changes[1].change_type = "Removal"
             /\ report.compatibility_score = 85
             /\ report.is_compatible
             /\ \E i \in 1..Len(report.issues) :
                   /\ report.issues[i].severity = "Error"
                   /\ report.issues[i].location = report.changes[1].location
       /\ plan.status # "None"
          => (plan.status = "Ok" /\ plan.is_breaking)

\* the change types occurring in a change sequence
TypesOf(chs) == {chs[i].change_type : i \in 1..Len(chs)}

\* C16: MigrationPlan::new sets impact_score to the largest per-change weight
\* of the sequence (Removal 100, Modification 50, Rename 30, Addition 25) and
\* to 0 for the empty sequence; it is not a sum.
C16_ImpactIsMaximum ==
    plan.status = "Ok"
    => plan.impact_score =
          (CASE "Removal" \in TypesOf(plan.changes) -> 100
             [] "Modification" \in TypesOf(plan.changes) -> 50
             [] "Rename" \in TypesOf(plan.changes) -> 30
             [] "Addition" \in TypesOf(plan.changes) -> 25
             [] OTHER -> 0)

C16_AdditionAndRemoval ==
    /\ plan.status = "Ok"
    /\ Len(plan.changes) = 2
    /\ TypesOf(plan.changes) = {"Addition", "Removal"}
    /\ plan.impact_score = 100
    /\ plan.is_breaking

\* the positions of the Removal and Modification entries of a change sequence
BreakingPositions(chs) ==
    {i \in 1..Len(chs) : chs[i].change_type \in {"Removal", "Modification"}}

\* C17: MigrationPlan::new sets is_breaking = true if and only if the
\* sequence contains a Removal or a Modification, and breaking_changes()
\* returns exactly the Removal and Modification entries of the plan in their
\* original order (non-empty exactly when is_breaking is true).
C17_BreakingChanges ==
    plan.status = "Ok"
    => LET at == BreakingPositions(plan.changes)
       IN  /\ plan.is_breaking <=> (at # {})
           /\ breaking.status = "Ok"
              => /\ Len(breaking.changes) = Cardinality(at)
                 /\ \A k \in 1..Len(breaking.changes) :
                       \E i \in at :
                          /\ Cardinality({j \in at : j <= i}) = k
                          /\ breaking.changes[k] = plan.changes[i]
                 /\ (breaking.changes # <<>>) <=> plan.is_breaking

C17_MixedPlan ==
    /\ plan.status = "Ok"
    /\ breaking.status = "Ok"
    /\ plan.is_breaking
    /\ Len(plan.changes) = 3
    /\ plan.changes[1].change_type = "Removal"
    /\ plan.changes[2].change_type = "Addition"
    /\ plan.changes[3].change_type = "Modification"
    /\ breaking.changes = <<plan.changes[1], plan.changes[3]>>

\* the number of changes of a type in a change sequence
CountType(chs, type) == Cardinality({i \in 1..Len(chs) : chs[i].change_type = type})

\* the number of Modifications whose description has 'optional to required'
CountOptionalToRequired(chs) ==
    Cardinality({i \in 1..Len(chs) :
                    /\ chs[i].change_type = "Modification"
                    /\ Contains(chs[i].description, "optional to required")})

\* the sum of the per-change weights stated for each dialect
StatedDeduction(d, chs) ==
    CASE d = "JsonSchema" ->
            5 * CountType(chs, "Addition") + 20 * CountType(chs, "Removal")
            + 10 * CountType(chs, "Modification") + 8 * CountType(chs, "Rename")
      [] d = "OpenAPI" ->
            5 * CountType(chs, "Addition") + 20 * CountType(chs, "Removal")
            + 10 * CountType(chs, "Modification") + 15 * CountOptionalToRequired(chs)
            + 8 * CountType(chs, "Rename")
      [] d = "SqlDDL" ->
            5 * CountType(chs, "Addition") + 15 * CountType(chs, "Removal")
            + 10 * CountType(chs, "Modification") + 8 * CountType(chs, "Rename")
      [] d = "Protobuf" ->
            20 * CountType(chs, "Removal") + 10 * CountType(chs, "Modification")

\* C18: for every dialect and every change sequence whose total deduction is
\* at most 100, compatibility_score is 100 minus the sum of the per-change
\* weights of the dialect (Protobuf has weights for Addition, Removal and
\* Modification only).
C18_ScoreIsHundredMinusWeights ==
    (/\ report.status # "None"
     /\ StatedDeduction(dialect, changes) <= 100
     /\ dialect = "Protobuf" => CountType(changes, "Rename") = 0)
    => /\ report.status = "Ok"
       /\ report.changes = changes
       /\ report.compatibility_score = 100 - StatedDeduction(dialect, changes)

C18_SqlRemovalAndOthers ==
    /\ dialect = "SqlDDL"
    /\ report.status = "Ok"
    /\ CountType(changes, "Removal") = 2
    /\ CountType(changes, "Rename") = 1
    /\ Len(changes) = 3
    /\ report.compatibility_score = 62

\* C19: in the reports of the OpenAPI, Protobuf and SQL analyzers every
\* Removal of report.changes has an Error-severity issue in report.issues at
\* the same location.
C19_RemovalsHaveErrorIssues ==
    (report.status = "Ok" /\ dialect \in {"OpenAPI", "Protobuf", "SqlDDL"})
    => \A i \in 1..Len(report.changes) :
          report.changes[i].change_type = "Removal"
          => \E j \in 1..Len(report.issues) :
                /\ report.issues[j].severity = "Error"
                /\ report.issues[j].location = report.changes[i].location

\* C20: OpenAPI: every change that validate_changes classifies with code
\* API002 appears in the report of analyze_compatibility as an issue of
\* severity Error.
C20_Api002IsAnError ==
    (dialect = "OpenAPI" /\ report.status = "Ok" /\ validation.status = "Ok")
    => \A e \in 1..Len(validation.errors) :
          validation.errors[e].code = "API002"
          => \E j \in 1..Len(report.issues) :
                /\ report.issues[j].location = validation.errors[e].path
                /\ report.issues[j].description = validation.errors[e].message
                /\ report.issues[j].severity = "Error"

\* the code OpenAPI validation is stated to give a change, "" for no error
StatedApiCode(change) ==
    CASE change.change_type = "Removal" -> "API001"
      [] /\ change.change_type = "Modification"
         /\ \/ /\ Contains(change.location, "parameters")
               /\ Contains(change.description, "required")
            \/ /\ Contains(change.location, "schema")
               /\ Contains(change.description, "type") -> "API002"
      [] OTHER -> ""

\* C21: OpenAPI validate_changes emits, in input order, exactly one error
\* API001 per Removal and one error API002 per Modification whose location
\* has 'parameters' and description 'required', or location 'schema' and
\* description 'type', and nothing for any other change; is_valid is true
\* exactly when no error is emitted.
C21_OpenApiValidation ==
    (dialect = "OpenAPI" /\ validation.status # "None")
    => LET at == {i \in 1..Len(changes) : StatedApiCode(changes[i]) # ""}
       IN  /\ validation.status = "Ok"
           /\ Len(validation.errors) = Cardinality(at)
           /\ \A k \in 1..Len(validation.errors) :
                 \E i \in at :
                    /\ Cardinality({j \in at : j <= i}) = k
                    /\ validation.errors[k].code = StatedApiCode(changes[i])
                    /\ validation.errors[k].path = changes[i].location
           /\ validation.is_valid <=> (validation.errors = <<>>)

C21_BothCodesAndSilentChanges ==
    /\ dialect = "OpenAPI"
    /\ validation.status = "Ok"
    /\ Len(changes) = 4
    /\ changes[1].change_type = "Modification"
    /\ changes[2].change_type = "Removal"
    /\ changes[3].location = "/components/schemas/user_type"
    /\ changes[4].location = "/components/schemas/user_type"
    /\ Len(validation.errors) = 3
    /\ validation.errors[1].code = "API001"
    /\ validation.errors[2].code = "API002"
    /\ ~validation.is_valid

\* C22: Protobuf: when a change sequence containing a Rename reaches the
\* analyzer's validation or scoring, the call aborts instead of returning a
\* ValidationResult or a score.
C22_RenameAborts ==
    (dialect = "Protobuf" /\ CountType(changes, "Rename") > 0)
    => /\ validation.status # "None" => validation.status = "Panic"
       /\ report.status # "None" => report.status = "Panic"

C22_RenameAfterOtherChanges ==
    /\ dialect = "Protobuf"
    /\ Len(changes) = 3
    /\ changes[1].change_type = "Addition"
    /\ changes[2].change_type = "Removal"
    /\ changes[3].change_type = "Rename"
    /\ validation.status = "Panic"
    /\ report.status = "Panic"

\* the locations {table}/{column} of the columns present in both versions of
\* a table whose declared data type differs
SqlRetypedColumns ==
    {old.doc[i].name \o "/" \o old.doc[i].columns[k].name :
        <<i, k>> \in
           {<<i, k>> \in (1..Len(old.doc)) \X (1..4) :
               /\ old.doc[i].kind = "CreateTable"
               /\ k <= Len(old.doc[i].columns)
               /\ \E j \in 1..Len(new.doc) :
                     /\ new.doc[j].kind = "CreateTable"
                     /\ new.doc[j].name = old.doc[i].name
                     /\ \E m \in 1..Len(new.doc[j].columns) :
                           /\ new.doc[j].columns[m].name = old.doc[i].columns[k].name
                           /\ new.doc[j].columns[m].data_type
                                 # old.doc[i].columns[k].data_type}}

\* C23: SQL: when a column present in both versions of a table changes its
\* declared data type, the report contains one Modification for it and a
\* Warning issue for that Modification, and validate_changes yields an error
\* with code SQL002 for it.
C23_TypeChangeIsWarned ==
    (dialect = "SqlDDL" /\ BothParse /\ report.status # "None")
    => \A location \in SqlRetypedColumns :
          /\ report.status = "Ok"
          /\ Cardinality({i \in 1..Len(report.changes) :
                             /\ report.changes[i].change_type = "Modification"
                             /\ report.changes[i].location = location}) = 1
          /\ \E j \in 1..Len(report.issues) :
                /\ report.issues[j].severity = "Warning"
                /\ report.issues[j].location = location
          /\ validation.status # "None"
             => \E e \in 1..Len(validation.errors) :
                   /\ validation.errors[e].code = "SQL002"
                   /\ validation.errors[e].path = location

RECURSIVE JsonRenamedKeys(_, _, _)
\* the pairs <<removed location, added location>> such that the value n is the
\* value o with one object key replaced by a differently named key of
\* identical content and nothing else changed
JsonRenamedKeys(o, n, path) ==
    IF o.t # n.t \/ o.t \notin {"object", "array"} \/ Len(o.c) # Len(n.c) THEN {}
    ELSE LET Sub(k, i) == IF o.t = "object" THEN path \o "/" \o k
                          ELSE path \o "/" \o ToString(i - 1)
         IN  {<<Sub(o.c[p[1]].k, 0), Sub(n.c[p[2]].k, 0)>> :
                 p \in {q \in (1..Len(o.c)) \X (1..Len(n.c)) :
                           /\ o.t = "object"
                           /\ o.c[q[1]].k # n.c[q[2]].k
                           /\ o.c[q[1]].v = n.c[q[2]].v
                           /\ RemoveAt(o.c, q[1]) = RemoveAt(n.c, q[2])}}
             \cup UNION {JsonRenamedKeys(o.c[i].v, n.c[i].v, Sub(o.c[i].k, i)) :
                            i \in {j \in 1..Len(o.c) :
                                      /\ n.c[j].k = o.c[j].k
                                      /\ n.c = [o.c EXCEPT ![j] = n.c[j]]}}

NoRename(chs) ==
    \A i \in 1..Len(chs) :
       chs[i].change_type \in {"Addition", "Removal", "Modification"}

\* C24: no analyzer emits a Rename: every change of a report or of a plan is
\* an Addition, a Removal or a Modification; a JSON key removed together with
\* a differently named key added with identical content gives exactly one
\* Removal and one Addition.
C24_NoRenameEmitted ==
    /\ report.status = "Ok" => NoRename(report.changes)
    /\ plan.status = "Ok" => NoRename(plan.changes)
    /\ (dialect = "JsonSchema" /\ BothParse /\ report.status # "None")
       => \A p \in JsonRenamedKeys(old.doc, new.doc, "") :
             /\ report.status = "Ok"
             /\ TypeAndLocation(report.changes) =
                   <<[change_type |-> "Removal", location |-> p[1]],
                     [change_type |-> "Addition", location |-> p[2]]>>

C24_JsonKeyRenamed ==
    /\ dialect = "JsonSchema"
    /\ report.status = "Ok"
    /\ plan.status = "Ok"
    /\ JsonRenamedKeys(old.doc, new.doc, "") =
          {<<"/properties/name", "/properties/age">>}

\* the changes (type and location) the stated rule gives two named
\* collections: Removal for a name only in old, Addition for a name only in
\* new, Modification for a name in both with unequal content
StatedNamedChanges(olds, news, prefix) ==
    LET Names(c) == {c[i].name : i \in 1..Len(c)}
        Entry(c, name) == c[CHOOSE i \in 1..Len(c) : c[i].name = name]
        Change(type, name) == [change_type |-> type, location |-> prefix \o name]
    IN  {Change("Removal", name) : name \in Names(olds) \ Names(news)}
        \cup {Change("Addition", name) : name \in Names(news) \ Names(olds)}
        \cup {Change("Modification", name) :
                 name \in {x \in Names(olds) \cap Names(news) :
                              Entry(olds, x) # Entry(news, x)}}

\* C25: OpenAPI: the diff of the named component schemas and of the named
\* security schemes follows one rule: Removal for a name only in old,
\* Addition for a name only in new, one Modification for a name in both with
\* unequal content, at /components/schemas/{name} and
\* /components/securitySchemes/{name}, also when one document has no
\* components section.
C25_ComponentsAndSecurity ==
    (dialect = "OpenAPI" /\ plan.status = "Ok")
    => LET found == SelectSeq(TypeAndLocation(plan.changes),
                        LAMBDA c : Contains(c.location, "/components/"))
           stated ==
               StatedNamedChanges(old.doc.components.schemas,
                                  new.doc.components.schemas, "/components/schemas/")
               \cup StatedNamedChanges(old.doc.components.security_schemes,
                                       new.doc.components.security_schemes,
                                       "/components/securitySchemes/")
       IN  /\ {found[i] : i \in 1..Len(found)} = stated
           /\ Len(found) = Cardinality(stated)

\* the paths whose path item is a reference in the old or in the new document
ReferencePaths ==
    {old.doc.paths[i].path : i \in {j \in 1..Len(old.doc.paths) : old.doc.paths[j].is_ref}}
    \cup {new.doc.paths[i].path : i \in {j \in 1..Len(new.doc.paths) : new.doc.paths[j].is_ref}}

\* the change is the Addition or Removal of the path or lies under one of
\* its operations
ChangeOfPath(change, path) ==
    \/ change.location \in {"paths/" \o path, "/paths/" \o path}
    \/ \E m \in 1..Len(Methods) :
          Contains(change.location, "paths/" \o path \o "/" \o Methods[m])

\* C26: OpenAPI: a path whose path item is a reference, in the old or in the
\* new document, contributes no Addition, Removal or nested change to the
\* result of analyze_compatibility nor to that of generate_migration_path.
C26_ReferencePathsSkipped ==
    (dialect = "OpenAPI" /\ BothParse)
    => \A path \in ReferencePaths :
          /\ report.status = "Ok"
             => \A i \in 1..Len(report.changes) : ~ChangeOfPath(report.changes[i], path)
          /\ plan.status = "Ok"
             => \A i \in 1..Len(plan.changes) : ~ChangeOfPath(plan.changes[i], path)

\* the kinds of the constraints of a column: NOT NULL, DEFAULT, UNIQUE and
\* PRIMARY KEY (UNIQUE with the is_primary flag)
ConstraintKinds(options) ==
    {<<options[i].kind, options[i].is_primary>> : i \in 1..Len(options)}

ComparedKinds == {<<"NotNull", FALSE>>, <<"Default", FALSE>>,
                  <<"Unique", FALSE>>, <<"Unique", TRUE>>}

\* the number of changes of a type at a location
CountAt(chs, type, location) ==
    Cardinality({i \in 1..Len(chs) :
                    chs[i].change_type = type /\ chs[i].location = location})

\* C27: SQL: the constraints of a column present in both versions are
\* compared as a set by kind (NOT NULL, DEFAULT, UNIQUE/PRIMARY KEY with equal
\* is_primary flag): a kind only in old gives one Removal, a kind only in new
\* one Addition, at {table}/{column}/constraints; a DEFAULT whose value
\* changes gives no change; PRIMARY KEY replaced by UNIQUE gives one Removal
\* and one Addition.
C27_ConstraintsComparedByKind ==
    (dialect = "SqlDDL" /\ BothParse /\ report.status = "Ok")
    => \A i \in 1..Len(old.doc), j \in 1..Len(new.doc) :
          (/\ old.doc[i].kind = "CreateTable"
           /\ new.doc[j].kind = "CreateTable"
           /\ old.doc[i].name = new.doc[j].name)
          => \A k \in 1..Len(old.doc[i].columns), m \in 1..Len(new.doc[j].columns) :
                LET old_col == old.doc[i].columns[k]
                    new_col == new.doc[j].columns[m]
                    olds == ConstraintKinds(old_col.options)
                    news == ConstraintKinds(new_col.options)
                    location == old.doc[i].name \o "/" \o old_col.name \o "/constraints"
                IN  (/\ old_col.name = new_col.name
                     /\ olds \cup news \subseteq ComparedKinds)
                    => /\ CountAt(report.changes, "Removal", location)
                            = Cardinality(olds \ news)
                       /\ CountAt(report.changes, "Addition", location)
                            = Cardinality(news \ olds)
                       /\ CountAt(report.changes, "Modification", location) = 0

C27_PrimaryKeyToUnique ==
    /\ dialect = "SqlDDL"
    /\ report.status = "Ok"
    /\ Len(old.doc) = 1
    /\ Len(new.doc) = 1
    /\ old.doc[1].columns[1].options = <<PrimaryKeyOpt>>
    /\ new.doc[1].columns[1].options = <<UniqueOpt>>
    /\ TypeAndLocation(report.changes) =
          <<[change_type |-> "Removal", location |-> "users/id/constraints"],
            [change_type |-> "Addition", location |-> "users/id/constraints"]>>

C27_DefaultValueChanged ==
    /\ dialect = "SqlDDL"
    /\ report.status = "Ok"
    /\ Len(old.doc) = 1
    /\ Len(new.doc) = 1
    /\ old.doc[1].columns[1].options = <<DefaultOpt("0")>>
    /\ new.doc[1].columns[1].options = <<DefaultOpt("1")>>
    /\ report.changes = <<>>

StartsWith(s, prefix) ==
    Len(s) >= Len(prefix) /\ SubSeq(s, 1, Len(prefix)) = prefix

RECURSIVE JsonArrayPairs(_, _, _)
\* the pairs of arrays that stand at the same path in the values o and n
JsonArrayPairs(o, n, path) ==
    CASE o.t = "object" /\ n.t = "object" ->
            UNION {JsonArrayPairs(o.c[i].v, n.c[j].v, path \o "/" \o o.c[i].k) :
                      <<i, j>> \in {ij \in (1..Len(o.c)) \X (1..Len(n.c)) :
                                       o.c[ij[1]].k = n.c[ij[2]].k}}
      [] o.t = "array" /\ n.t = "array" ->
            {[path |-> path, old_arr |-> o.c, new_arr |-> n.c]}
            \cup UNION {JsonArrayPairs(o.c[i].v, n.c[i].v, path \o "/" \o ToString(i - 1)) :
                           i \in {k \in 1..Len(o.c) : k <= Len(n.c)}}
      [] OTHER -> {}

\* the positions of the changes at a location or below it
PositionsUnder(chs, location) ==
    {i \in 1..Len(chs) :
        chs[i].location = location \/ StartsWith(chs[i].location, location \o "/")}

\* what a sequence of changes has to hold for one pair of arrays
ArrayChangesAsStated(chs, pair) ==
    LET p == pair.path
        o == pair.old_arr
        n == pair.new_arr
        AtP == {i \in 1..Len(chs) : chs[i].location = p}
        ElementPath(i) == p \o "/" \o ToString(i - 1)
    IN  /\ Cardinality(AtP) = IF Len(o) # Len(n) THEN 1 ELSE 0
        /\ \A i \in AtP :
              /\ chs[i].change_type = "Modification"
              /\ \A j \in PositionsUnder(chs, p) : i <= j
        /\ \A i \in 1..Len(o) \cup 1..Len(n) :
              IF i > Len(o) \/ i > Len(n) THEN PositionsUnder(chs, ElementPath(i)) = {}
              ELSE IF o[i].v = n[i].v THEN PositionsUnder(chs, ElementPath(i)) = {}
              ELSE IF o[i].v.t \in {"object", "array"} /\ o[i].v.t = n[i].v.t
                   THEN PositionsUnder(chs, ElementPath(i)) # {}
              ELSE /\ Cardinality(PositionsUnder(chs, ElementPath(i))) = 1
                   /\ \A j \in PositionsUnder(chs, ElementPath(i)) :
                         /\ chs[j].location = ElementPath(i)
                         /\ chs[j].change_type = "Modification"

\* C28: JSON Schema: two arrays of different lengths at path p give exactly
\* one Modification at p, before any element change, and then only the changes
\* of the elements i of both arrays at p/i for i below the shorter length;
\* the elements beyond the shorter length give no change; arrays of equal
\* length give no Modification at p.
C28_ArraysComparedUpToShorter ==
    (dialect = "JsonSchema" /\ BothParse)
    => \A pair \in JsonArrayPairs(old.doc, new.doc, "") :
          /\ report.status = "Ok" => ArrayChangesAsStated(report.changes, pair)
          /\ plan.status = "Ok" => ArrayChangesAsStated(plan.changes, pair)

C28_LongerArrayWithChangedElement ==
    /\ dialect = "JsonSchema"
    /\ BothParse
    /\ report.status = "Ok"
    /\ \E pair \in JsonArrayPairs(old.doc, new.doc, "") :
          /\ pair.path = "/required"
          /\ Len(pair.old_arr) = 1
          /\ Len(pair.new_arr) = 2
          /\ pair.old_arr[1].v # pair.new_arr[1].v
    /\ TypeAndLocation(report.changes) =
          <<[change_type |-> "Modification", location |-> "/required"],
            [change_type |-> "Modification", location |-> "/required/0"]>>

\* the document without the parameters of its operations
WithoutParameters(doc) ==
    [doc EXCEPT !.paths =
        [i \in 1..Len(doc.paths) |->
            [doc.paths[i] EXCEPT !.ops =
                [j \in 1..Len(doc.paths[i].ops) |->
                    [doc.paths[i].ops[j] EXCEPT !.parameters = <<>>]]]]]

\* the names of the parameters that go from required=false to required=true
\* in an operation present in both versions
BecameRequired ==
    LET InOperation(old_op, new_op) ==
            {old_op.parameters[a].name :
                a \in {x \in 1..Len(old_op.parameters) :
                          /\ ~old_op.parameters[x].is_ref
                          /\ ~old_op.parameters[x].required
                          /\ \E y \in 1..Len(new_op.parameters) :
                                /\ ~new_op.parameters[y].is_ref
                                /\ new_op.parameters[y].name = old_op.parameters[x].name
                                /\ new_op.parameters[y].required}}
        InItem(old_item, new_item) ==
            UNION {InOperation(old_item.ops[k], new_item.ops[m]) :
                      <<k, m>> \in {km \in (1..Len(old_item.ops)) \X (1..Len(new_item.ops)) :
                                       old_item.ops[km[1]].method
                                           = new_item.ops[km[2]].method}}
    IN  UNION {InItem(old.doc.paths[i], new.doc.paths[j]) :
                  <<i, j>> \in {ij \in (1..Len(old.doc.paths)) \X (1..Len(new.doc.paths)) :
                                   /\ ~old.doc.paths[ij[1]].is_ref
                                   /\ ~new.doc.paths[ij[2]].is_ref
                                   /\ old.doc.paths[ij[1]].path
                                         = new.doc.paths[ij[2]].path}}

C30_JsonNeverObjects ==
    dialect = "JsonSchema"
    => /\ validation.status # "None"
          => /\ validation.status = "Ok"
             /\ validation.is_valid
             /\ validation.errors = <<>>
       /\ report.status = "Ok" => report.issues = <<>>

C30_RemovalAndModificationAccepted ==
    /\ dialect = "JsonSchema"
    /\ \E i \in 1..Len(changes) : changes[i].change_type = "Removal"
    /\ \E i \in 1..Len(changes) : changes[i].change_type = "Modification"
    /\ validation.status = "Ok"
    /\ validation.is_valid
    /\ report.status = "Ok"
    /\ report.changes = changes
    /\ report.issues = <<>>

====
